---- MODULE Spec2Model ----
(***************************************************************************)
(* A model of metar (src/src/main.c): the URL builder formURL, the write   *)
(* callback printData and the option loop and fetch loop of main.          *)
(*                                                                         *)
(* Characters are one-character strings; NUL is the C string terminator    *)
(* and JUNK the indeterminate content of the automatic array url[] before  *)
(* its first write.  libcurl and getopt are the program's environment:     *)
(* getopt is modelled by the option characters it returns, and             *)
(* curl_easy_perform by the write callbacks it makes followed by the       *)
(* result code and the response code it reports.                           *)
(***************************************************************************)
EXTENDS Integers, Sequences, FiniteSets, TLC

(* ------------------------------ bounds --------------------------------- *)

\* most station operands on a command line
MaxArgs == 2
\* most option characters getopt returns before the operands
MaxOpts == 2
\* longest station operand enumerated by the one-station specification
MaxStationLen == 5

(* ------------------------- program constants --------------------------- *)

NUL == "NUL"
JUNK == "JUNK"

URL_PREFIX_TAF == <<"h","t","t","p",":","/","/","t","g","f","t","p",".","n","w","s",".","n","o","a","a",".","g","o","v","/","d","a","t","a","/","f","o","r","e","c","a","s","t","s","/","t","a","f","/","s","t","a","t","i","o","n","s","/">>
URL_PREFIX_DECODED == <<"h","t","t","p",":","/","/","t","g","f","t","p",".","n","w","s",".","n","o","a","a",".","g","o","v","/","d","a","t","a","/","o","b","s","e","r","v","a","t","i","o","n","s","/","m","e","t","a","r","/","d","e","c","o","d","e","d","/">>
URL_PREFIX_METAR == <<"h","t","t","p",":","/","/","t","g","f","t","p",".","n","w","s",".","n","o","a","a",".","g","o","v","/","d","a","t","a","/","o","b","s","e","r","v","a","t","i","o","n","s","/","m","e","t","a","r","/","s","t","a","t","i","o","n","s","/">>
URL_EXTENSION == <<".","T","X","T">>

STATION_ID_LEN == 4
DEFAULT_STATION_PREFIX == <<"K">>
\* sizeof of a string literal counts its terminator
SizeOf(lit) == Len(lit) + 1
DEFAULT_STATION_PREFIX_LEN == SizeOf(DEFAULT_STATION_PREFIX) - 1
HTTP_RESPONSE_NOT_FOUND == 404

\* LONGEST_URL_PREFIX set to a prefix that is not the longest
LONGEST_URL_PREFIX_taf == URL_PREFIX_TAF

LONGEST_URL_PREFIX == URL_PREFIX_METAR
URL_BUFFER_LEN == (SizeOf(LONGEST_URL_PREFIX) - 1) + STATION_ID_LEN + (SizeOf(URL_EXTENSION) - 1) + 1

\* enum urlType
UrlTypes == {"METAR", "TAF", "Decoded"}

\* <sysexits.h>
EX_OK == 0
EX_USAGE == 64
EX_SOFTWARE == 70

(* ------------------------------ <ctype.h> ------------------------------ *)
\* The program never calls setlocale, so the "C" locale classifies.

LowerCase == <<"a","b","c","d","e","f","g","h","i","j","k","l","m","n","o","p","q","r","s","t","u","v","w","x","y","z">>
UpperCase == <<"A","B","C","D","E","F","G","H","I","J","K","L","M","N","O","P","Q","R","S","T","U","V","W","X","Y","Z">>
Digits == <<"0","1","2","3","4","5","6","7","8","9">>

Range(s) == {s[i] : i \in DOMAIN s}

isalnum(c) == c \in Range(LowerCase) \cup Range(UpperCase) \cup Range(Digits)

toupper(c) ==
  IF c \in Range(LowerCase)
    THEN UpperCase[CHOOSE i \in DOMAIN LowerCase : LowerCase[i] = c]
    ELSE c

(* --------------------------- the url[] buffer --------------------------- *)
\* A buffer is a record: mem, the bytes at the indices 0 .. bufLen-1, and
\* fault, set by a store at an index outside them.

FreshBuffer(bufLen) == [mem |-> [k \in 0..(bufLen - 1) |-> JUNK], fault |-> FALSE]

Store(b, i, c) ==
  IF i \in DOMAIN b.mem
    THEN [b EXCEPT !.mem[i] = c]
    ELSE [b EXCEPT !.fault = TRUE]

\* strncpy(buf + dst, src, n): n bytes are written, the bytes of src and
\* then NUL padding; no terminator is written when src has n bytes or more
strncpy(b, dst, src, n) ==
  [mem |-> [k \in DOMAIN b.mem |->
              IF k >= dst /\ k < dst + n
                THEN (IF k - dst < Len(src) THEN src[k - dst + 1] ELSE NUL)
                ELSE b.mem[k]],
   fault |-> b.fault \/ (\E k \in dst..(dst + n - 1) : k \notin DOMAIN b.mem)]

\* memcpy(buf + dst, src, n), n <= Len(src)
memcpy(b, dst, src, n) ==
  [mem |-> [k \in DOMAIN b.mem |->
              IF k >= dst /\ k < dst + n THEN src[k - dst + 1] ELSE b.mem[k]],
   fault |-> b.fault \/ (\E k \in dst..(dst + n - 1) : k \notin DOMAIN b.mem)]

\* The only element of a one-element set.  A statement sequence "x = e;
\* rest" is written The({rest : x \in {e}}), which computes e once.
The(S) == CHOOSE r \in S : TRUE

\* Is there a terminator inside the buffer?
Terminated(b) == \E k \in DOMAIN b.mem : b.mem[k] = NUL

\* strlen(buf), the read stopping at the end of the buffer
StrLen(b) == Cardinality({k \in DOMAIN b.mem : \A j \in 0..k : b.mem[j] # NUL})

\* The C string the buffer holds: its bytes before the first NUL
CStr(b) == [j \in 1..StrLen(b) |-> b.mem[j - 1]]

(* ------------------------------- formURL -------------------------------- *)

WARN_LENGTH == "Station ID must be either three or four characters long."
WARN_ALNUM == "Station ID must contain only alphanumeric characters."

\* the switch on the urlType; no prefix for a value outside the enum
HasPrefix(type) == type \in UrlTypes

PrefixOf(type) ==
  CASE type = "METAR" -> URL_PREFIX_METAR
    [] type = "TAF" -> URL_PREFIX_TAF
    [] type = "Decoded" -> URL_PREFIX_DECODED

\* The loop "for (i = 1; i <= stationLen; i++)" from its i-th iteration on:
\* station[stationLen - i] is tested, capitalized and stored at
\* buf[(written + STATION_ID_LEN) - i].  ok is FALSE when the loop returned
\* false at a character that is not alphanumeric.
RECURSIVE TransferStation(_, _, _, _)
TransferStation(b, written, station, i) ==
  IF i > Len(station)
    THEN [buf |-> b, ok |-> TRUE]
    ELSE LET c == station[(Len(station) - i) + 1]
         IN  IF ~isalnum(c)
               THEN [buf |-> b, ok |-> FALSE]
               ELSE The({TransferStation(stored, written, station, i + 1) :
                           stored \in {Store(b, (written + STATION_ID_LEN) - i, toupper(c))}})

\* formURL without the step that prepends the 'K'
PrependDefault_omitted(b, written, stationLen) == b

\* "If it is a character short, prepend the 'K'"
PrependDefault(b, written, stationLen) ==
  IF stationLen = STATION_ID_LEN - DEFAULT_STATION_PREFIX_LEN
    THEN memcpy(b, written, DEFAULT_STATION_PREFIX, DEFAULT_STATION_PREFIX_LEN)
    ELSE b

\* the length test taking every station of at most four characters
ValidLength_atMost(stationLen) == stationLen <= STATION_ID_LEN

\* The length test at the head of formURL
ValidLength(stationLen) ==
  \/ stationLen = STATION_ID_LEN
  \/ stationLen = STATION_ID_LEN - DEFAULT_STATION_PREFIX_LEN

\* assert(bufLen >= written + sizeof(URL_EXTENSION)), written already
\* advanced past the station field
ExtensionFits(bufLen, written) == bufLen >= written + SizeOf(URL_EXTENSION)

\* formURL(buf, bufLen, type, station).  The result: ret, the value
\* returned; buf, the buffer as the call leaves it; warn, the warnx lines
\* it wrote; aborted, whether the assertion failed.
formURL(b, bufLen, type, station) ==
  LET stationLen == Len(station)
  IN
  IF ~ValidLength(stationLen)
    THEN [ret |-> FALSE, buf |-> b, warn |-> <<WARN_LENGTH>>, aborted |-> FALSE]
  ELSE IF ~HasPrefix(type)
    THEN [ret |-> FALSE, buf |-> b, warn |-> << >>, aborted |-> FALSE]
  ELSE
    LET prefix == PrefixOf(type)
        written == Len(prefix)
        written2 == written + STATION_ID_LEN
    IN
    The({
    The({
      IF ~loop.ok
        THEN [ret |-> FALSE, buf |-> loop.buf, warn |-> <<WARN_ALNUM>>, aborted |-> FALSE]
      ELSE
        The({
          IF ~ExtensionFits(bufLen, written2)
            THEN [ret |-> FALSE, buf |-> b2, warn |-> << >>, aborted |-> TRUE]
            ELSE [ret |-> TRUE,
                  buf |-> strncpy(b2, written2, URL_EXTENSION, SizeOf(URL_EXTENSION)),
                  warn |-> << >>, aborted |-> FALSE]
          : b2 \in {PrependDefault(loop.buf, written, stationLen)}})
      : loop \in {TransferStation(b1, written, station, 1)}})
      : b1 \in {strncpy(b, 0, prefix, bufLen)}})

(* ------------------------------ printData ------------------------------- *)
\* One call of the write callback: data, the size * nmemb bytes received,
\* and after, the bytes that follow them in memory before the first NUL
\* there.  libcurl does not terminate the data it hands over, so what
\* follows it is not the program's to choose.

RECURSIVE UpToNul(_)
UpToNul(bytes) ==
  IF bytes = << >> \/ Head(bytes) = NUL
    THEN << >>
    ELSE <<Head(bytes)>> \o UpToNul(Tail(bytes))

\* printf("%s", (const char *)contents): the bytes from contents on, up to
\* the first NUL, whether or not that is where the data ends
printData(w) == UpToNul(w.data \o w.after \o <<NUL>>)

RECURSIVE PrintAll(_)
PrintAll(writes) ==
  IF writes = << >> THEN << >>
  ELSE printData(Head(writes)) \o PrintAll(Tail(writes))

\* the bytes a transfer received, as received
RECURSIVE Body(_)
Body(writes) ==
  IF writes = << >> THEN << >>
  ELSE Head(writes).data \o Body(Tail(writes))

(* ------------------------- the libcurl environment ---------------------- *)

CURLcodes ==
  {"CURLE_OK", "CURLE_REMOTE_FILE_NOT_FOUND", "CURLE_HTTP_RETURNED_ERROR",
   "CURLE_OPERATION_TIMEDOUT"}

ResponseCodes == {0, 200, 404, 500}

\* a bulletin delivered whole, a terminator happening to follow it
WholeBody == <<[data |-> <<"M", "\n">>, after |-> << >>]>>
\* the same, other bytes following it in the receive buffer
WholeBodyStale == <<[data |-> <<"M", "\n">>, after |-> <<"g">>]>>
\* a body with a zero byte inside
BodyWithNul == <<[data |-> <<"M", NUL, "\n">>, after |-> << >>]>>
\* a bulletin delivered in two calls
TwoWrites == <<[data |-> <<"M">>, after |-> << >>], [data |-> <<"\n">>, after |-> << >>]>>
\* the first bytes of a bulletin, the transfer then failing
PartBody == <<[data |-> <<"M">>, after |-> << >>]>>

Deliveries == {<< >>, WholeBody, WholeBodyStale, BodyWithNul, TwoWrites, PartBody}

\* What one curl_easy_perform can do: the write callbacks it makes, then
\* the result it returns and the response code curl_easy_getinfo reports.
\* With CURLOPT_FAILONERROR set, body bytes reach the callback only under
\* a 200 response, and the transfer then ends well or times out.
AllOutcomes ==
  {o \in [res : CURLcodes, response : ResponseCodes, writes : Deliveries] :
     o.writes # << >> =>
       /\ o.response = 200
       /\ o.res \in {"CURLE_OK", "CURLE_OPERATION_TIMEDOUT"}}

\* the outcomes drawn when whole command lines are run
SampleOutcomes ==
  {[res |-> "CURLE_OK", response |-> 200, writes |-> WholeBody],
   [res |-> "CURLE_OK", response |-> 200, writes |-> WholeBodyStale],
   [res |-> "CURLE_HTTP_RETURNED_ERROR", response |-> 404, writes |-> << >>],
   [res |-> "CURLE_REMOTE_FILE_NOT_FOUND", response |-> 0, writes |-> << >>],
   [res |-> "CURLE_OPERATION_TIMEDOUT", response |-> 200, writes |-> PartBody]}

\* curl_easy_strerror
curl_easy_strerror(code) ==
  CASE code = "CURLE_OK" -> "No error"
    [] code = "CURLE_REMOTE_FILE_NOT_FOUND" -> "Remote file not found"
    [] code = "CURLE_HTTP_RETURNED_ERROR" -> "HTTP response code said error"
    [] code = "CURLE_OPERATION_TIMEDOUT" -> "Timeout was reached"

(* ------------------------------ the inputs ------------------------------ *)

SeqsUpTo(S, n) == UNION {[1..k -> S] : k \in 0..n}

\* what getopt(argc, argv, "dt") returns for an option: d, t, or ? for any
\* other option character
OptChars == {"d", "t", "?"}

\* station operands of whole command lines
SampleStations ==
  {<<"k","J","f","k">>, <<"l","a","x">>, <<"b","o","g","u","s","1">>, <<"l","a","!">>}

\* station operands of the one-station runs: every string over these
\* characters
StationAlphabet == {"a", "B", "7", "-"}
AllStations == SeqsUpTo(StationAlphabet, MaxStationLen)
UnitOpts == {<< >>, <<"d">>, <<"t">>, <<"d", "t">>, <<"?">>}

(* ------------------------------- the state ------------------------------ *)

VARIABLES
  opts,        \* the option characters getopt has yet to return
  argv,        \* the operands, argv[optind ..]
  pc,          \* where main is
  decoded,     \* -d seen
  tafs,        \* -t seen
  arg,         \* the loop index of main
  curl,        \* CURL *curl: "unset", "NULL", "handle" or "cleaned"
  url,         \* char url[URL_BUFFER_LEN]
  res,         \* CURLcode res of the last primary fetch
  response,    \* long response of the last primary fetch
  stdout,      \* the bytes written to standard output
  stderr,      \* the lines written to standard error
  requests,    \* history: the calls of curl_easy_perform
  formed,      \* history: the calls of formURL
  classified,  \* history: the branch taken after each primary fetch
  exitStatus   \* the value main returned

vars ==
  <<opts, argv, pc, decoded, tafs, arg, curl, url, res, response, stdout,
    stderr, requests, formed, classified, exitStatus>>

argc == Len(argv)

\* a line of standard error: its text, the station identifiers it names
\* and the loop index it was written at (-1 outside the loop)
Line(text, names, at) == [text |-> text, names |-> names, at |-> at]

\* usage(): the usage text, three lines
UsageLines ==
  <<Line("usage: metar [-dt] station_id [...]", << >>, -1),
    Line("\t-d Show decoded METAR output", << >>, -1),
    Line("\t-t Show TAFs where available", << >>, -1)>>

InitWith(optSeqs, argvs) ==
  /\ opts \in optSeqs
  /\ argv \in argvs
  /\ pc = "getopt"
  /\ decoded = FALSE
  /\ tafs = FALSE
  /\ arg = 0
  /\ curl = "unset"
  /\ url = FreshBuffer(URL_BUFFER_LEN)
  /\ res = "CURLE_OK"
  /\ response = 0
  /\ stdout = << >>
  /\ stderr = << >>
  /\ requests = << >>
  /\ formed = << >>
  /\ classified = << >>
  /\ exitStatus = -1

Init == InitWith(SeqsUpTo(OptChars, MaxOpts), SeqsUpTo(SampleStations, MaxArgs))

UnitInit == InitWith(UnitOpts, {<< >>} \cup {<<s>> : s \in AllStations})

(* ------------------------------- main ----------------------------------- *)

\* return usage();
ReturnUsage(lines) ==
  /\ stderr' = stderr \o lines \o UsageLines
  /\ exitStatus' = EX_USAGE
  /\ pc' = "exited"

\* One turn of "while ((ch = getopt(argc, argv, "dt")) != -1)"
Getopt ==
  /\ pc = "getopt"
  /\ \/ /\ opts = << >>
        /\ pc' = "argc"
        /\ UNCHANGED <<opts, decoded, tafs, stderr, exitStatus>>
     \/ /\ opts # << >>
        /\ Head(opts) = "d"
        /\ decoded' = TRUE
        /\ opts' = Tail(opts)
        /\ UNCHANGED <<pc, tafs, stderr, exitStatus>>
     \/ /\ opts # << >>
        /\ Head(opts) = "t"
        /\ tafs' = TRUE
        /\ opts' = Tail(opts)
        /\ UNCHANGED <<pc, decoded, stderr, exitStatus>>
     \/ /\ opts # << >>
        /\ Head(opts) \notin {"d", "t"}
        /\ ReturnUsage(<<Line("illegal option", << >>, -1)>>)
        /\ opts' = Tail(opts)
        /\ UNCHANGED <<decoded, tafs>>
  /\ UNCHANGED <<argv, arg, curl, url, res, response, stdout, requests, formed,
                 classified>>

\* the operand test never true
NoOperands_never(n) == n < 0

\* the test of "if (argc < 1)"
NoOperands(n) == n < 1

\* "if (argc < 1)"
CheckArgc ==
  /\ pc = "argc"
  /\ \/ /\ NoOperands(argc)
        /\ ReturnUsage(<<Line("At least one argument is required", << >>, -1)>>)
     \/ /\ ~NoOperands(argc)
        /\ pc' = "init"
        /\ UNCHANGED <<stderr, exitStatus>>
  /\ UNCHANGED <<opts, argv, decoded, tafs, arg, curl, url, res, response, stdout,
                 requests, formed, classified>>

\* curl_easy_init(), which may return NULL, and the four curl_easy_setopt
CurlInit ==
  /\ pc = "init"
  /\ \/ /\ curl' = "NULL"
        /\ exitStatus' = EX_SOFTWARE
        /\ pc' = "exited"
     \/ /\ curl' = "handle"
        /\ pc' = "loop"
        /\ UNCHANGED exitStatus
  /\ arg' = 0
  /\ UNCHANGED <<opts, argv, decoded, tafs, url, res, response, stdout, stderr,
                 requests, formed, classified>>

\* the record of one call of formURL
Formed(at, secondary, type, station, r) ==
  [at |-> at, secondary |-> secondary, type |-> type, station |-> station,
   ret |-> r.ret,
   str |-> CStr(r.buf), fault |-> r.buf.fault, terminated |-> Terminated(r.buf),
   aborted |-> r.aborted]

WarnLines(texts, at) == [i \in DOMAIN texts |-> Line(texts[i], << >>, at)]

\* sizeof(url)
SizeOfUrl == URL_BUFFER_LEN

\* "break;" in the place of "continue;"
Continue_break(a) == [pc |-> "loop", arg |-> argc]

\* the same station tried again in the place of "continue;"
Continue_retry(a) == [pc |-> "loop", arg |-> a]

\* "continue;" from iteration a of the loop: on to arg++ and the loop test
Continue(a) == [pc |-> "loop", arg |-> a + 1]

\* the second fetch following -d
SecondaryType_followsDecoded(dec) == IF dec THEN "Decoded" ELSE "TAF"

\* the urlType of the second fetch, whatever -d says
SecondaryType(dec) == "TAF"

\* the record of a call of curl_easy_perform on the URL in b, while it runs
Pending(at, secondary, b) ==
  [at |-> at, url |-> CStr(b), secondary |-> secondary, done |-> FALSE,
   res |-> "CURLE_OK", response |-> 0, body |-> << >>]

\* the record of the call, returned with outcome o
Completed(req, o) ==
  [req EXCEPT !.done = TRUE, !.res = o.res, !.response = o.response,
              !.body = Body(o.writes)]

\* The head of "for (arg = 0; arg < argc; arg++)": the loop test, and in
\* the body the declaration of url, the primary formURL,
\* curl_easy_setopt(curl, CURLOPT_URL, url) and the entry into
\* curl_easy_perform; after the loop, the cleanup and "return EX_OK".
LoopHead ==
  /\ pc = "loop"
  /\ \/ /\ arg < argc
        /\ \E type \in {IF decoded THEN "Decoded" ELSE "METAR"} :
           \E fresh \in {FreshBuffer(URL_BUFFER_LEN)} :
           \E r \in {formURL(fresh, SizeOfUrl, type, argv[arg + 1])} :
               /\ formed' = Append(formed, Formed(arg, FALSE, type, argv[arg + 1], r))
               /\ stderr' = stderr \o WarnLines(r.warn, arg)
               /\ url' = r.buf
               /\ IF r.aborted
                    THEN pc' = "aborted" /\ arg' = arg /\ UNCHANGED requests
                    ELSE IF ~r.ret
                      THEN /\ pc' = Continue(arg).pc
                           /\ arg' = Continue(arg).arg
                           /\ UNCHANGED requests
                      ELSE /\ pc' = "transfer"
                           /\ arg' = arg
                           /\ requests' = Append(requests, Pending(arg, FALSE, r.buf))
        /\ UNCHANGED <<curl, exitStatus>>
     \/ /\ ~(arg < argc)
        /\ curl' = "cleaned"
        /\ exitStatus' = EX_OK
        /\ pc' = "exited"
        /\ UNCHANGED <<arg, url, stderr, formed, requests>>
  /\ UNCHANGED <<opts, argv, decoded, tafs, res, response, stdout, classified>>

\* The primary transfer: the write callbacks, then the return of
\* curl_easy_perform and curl_easy_getinfo(CURLINFO_RESPONSE_CODE)
PerformEnd(Outcomes) ==
  /\ pc = "transfer"
  /\ \E o \in Outcomes :
       /\ stdout' = stdout \o PrintAll(o.writes)
       /\ res' = o.res
       /\ response' = o.response
       /\ requests' = [requests EXCEPT ![Len(requests)] = Completed(@, o)]
  /\ pc' = "classify"
  /\ UNCHANGED <<opts, argv, decoded, tafs, arg, curl, url, stderr, formed,
                 classified, exitStatus>>

\* "if (res == CURLE_REMOTE_FILE_NOT_FOUND || response == HTTP_RESPONSE_NOT_FOUND)"
IsNotFound(r, resp) == r = "CURLE_REMOTE_FILE_NOT_FOUND" \/ resp = HTTP_RESPONSE_NOT_FOUND

\* "if (res != CURLE_OK)"
IsFailure(r) == r # "CURLE_OK"

\* the two tests in the other order
Classification_failureFirst(r, resp) ==
  IF IsFailure(r) THEN "TransportError"
  ELSE IF IsNotFound(r, resp) THEN "NotFound"
  ELSE "Success"

\* the branch the two tests take, in their order
Classification(r, resp) ==
  IF IsNotFound(r, resp) THEN "NotFound"
  ELSE IF IsFailure(r) THEN "TransportError"
  ELSE "Success"

\* the warnx of the transport's description left out
Diagnostics_oneLine(class, r, station, at) ==
  CASE class = "NotFound" ->
         <<Line("Station ID \"%s\" not found", <<station>>, at)>>
    [] class = "TransportError" ->
         <<Line("Unable to fetch information for station ID \"%s\"", <<station>>, at)>>
    [] class = "Success" -> << >>

\* the warnx lines of each branch
Diagnostics(class, r, station, at) ==
  CASE class = "NotFound" ->
         <<Line("Station ID \"%s\" not found", <<station>>, at)>>
    [] class = "TransportError" ->
         <<Line(curl_easy_strerror(r), << >>, at),
           Line("Unable to fetch information for station ID \"%s\"", <<station>>, at)>>
    [] class = "Success" -> << >>

\* The two tests after the primary fetch, each with its warnx and continue
Classify ==
  /\ pc = "classify"
  /\ \E class \in {Classification(res, response)} :
         /\ classified' = Append(classified,
                            [at |-> arg, res |-> res, response |-> response, class |-> class])
         /\ stderr' = stderr \o Diagnostics(class, res, argv[arg + 1], arg)
         /\ IF class = "Success"
              THEN pc' = "taf" /\ arg' = arg
              ELSE pc' = Continue(arg).pc /\ arg' = Continue(arg).arg
  /\ UNCHANGED <<opts, argv, decoded, tafs, curl, url, res, response, stdout,
                 requests, formed, exitStatus>>

\* "if (tafs) { if (formURL(url, sizeof(url), TAF, argv[arg])) ...": the
\* second formURL, curl_easy_setopt(curl, CURLOPT_URL, url) and the entry
\* into curl_easy_perform; without -t, the end of the loop body
Taf ==
  /\ pc = "taf"
  /\ \/ /\ tafs
        /\ \E type \in {SecondaryType(decoded)} :
           \E r \in {formURL(url, SizeOfUrl, type, argv[arg + 1])} :
               /\ formed' = Append(formed, Formed(arg, TRUE, type, argv[arg + 1], r))
               /\ stderr' = stderr \o WarnLines(r.warn, arg)
               /\ url' = r.buf
               /\ IF r.aborted
                    THEN pc' = "aborted" /\ arg' = arg /\ UNCHANGED requests
                    ELSE IF ~r.ret
                      THEN pc' = "loop" /\ arg' = arg + 1 /\ UNCHANGED requests
                      ELSE /\ pc' = "taftransfer"
                           /\ arg' = arg
                           /\ requests' = Append(requests, Pending(arg, TRUE, r.buf))
     \/ /\ ~tafs
        /\ pc' = "loop"
        /\ arg' = arg + 1
        /\ UNCHANGED <<url, stderr, formed, requests>>
  /\ UNCHANGED <<opts, argv, decoded, tafs, curl, res, response, stdout, classified,
                 exitStatus>>

\* The TAF transfer: the write callbacks, then the return of
\* curl_easy_perform, whose result is dropped; the loop goes on
TafEnd(Outcomes) ==
  /\ pc = "taftransfer"
  /\ \E o \in Outcomes :
       /\ stdout' = stdout \o PrintAll(o.writes)
       /\ requests' = [requests EXCEPT ![Len(requests)] = Completed(@, o)]
  /\ pc' = "loop"
  /\ arg' = arg + 1
  /\ UNCHANGED <<opts, argv, decoded, tafs, curl, url, res, response, stderr,
                 formed, classified, exitStatus>>

Step(Outcomes) ==
  \/ Getopt
  \/ CheckArgc
  \/ CurlInit
  \/ LoopHead
  \/ PerformEnd(Outcomes)
  \/ Classify
  \/ Taf
  \/ TafEnd(Outcomes)

\* whole command lines, over the sampled stations and outcomes
Next == Step(SampleOutcomes)

Spec == Init /\ [][Next]_vars

\* The same runs, every step the program can take being taken in the end:
\* main is sequential, and CURLOPT_TIMEOUT bounds each curl_easy_perform.
FairSpec == Spec /\ WF_vars(Next)

\* one-station command lines, over every station string and every outcome
UnitNext == Step(AllOutcomes)

UnitSpec == UnitInit /\ [][UnitNext]_vars

(* ======================================================================= *)
(*                               the claims                                *)
(* ======================================================================= *)

Upper(station) == [i \in DOMAIN station |-> toupper(station[i])]
AllAlnum(station) == \A i \in DOMAIN station : isalnum(station[i])

\* the station field of a URL: the upper-cased identifier, K before it when
\* it has three characters
StationField(station) ==
  IF Len(station) = 3 THEN <<"K">> \o Upper(station) ELSE Upper(station)

ExpectedURL(type, station) == PrefixOf(type) \o StationField(station) \o <<".","T","X","T">>

\* the lines of standard error written in iteration i of the loop
LinesAt(i) == SelectSeq(stderr, LAMBDA l : l.at = i)

\* the calls of curl_easy_perform made in iteration i
RequestsAt(i, secondary) ==
  {k \in DOMAIN requests : requests[k].at = i /\ requests[k].secondary = secondary}

\* the iterations of the loop that are over
Finished == 0..(arg - 1)

\* iteration i ended at the primary formURL returning false
Invalid(i) ==
  \E k \in DOMAIN formed : formed[k].at = i /\ ~formed[k].secondary /\ ~formed[k].ret

\* iteration i took branch class after its primary fetch
ClassAt(i, class) ==
  \E k \in DOMAIN classified : classified[k].at = i /\ classified[k].class = class

(* ------------------------------- C1 ------------------------------------ *)
\* C1: for every request kind and every station of 3 or 4 alphanumeric
\* characters, formURL returns true and leaves in the buffer exactly the
\* prefix of the kind, then the station field, then ".TXT"; the station
\* field is the upper-cased station in its order, "K" before it when the
\* station has 3 characters, and always has 4 characters.
C1_FormURLBuildsTheURL ==
  \A k \in DOMAIN formed :
    LET f == formed[k]
    IN  (Len(f.station) \in {3, 4} /\ AllAlnum(f.station)) =>
          /\ f.ret
          /\ f.str = ExpectedURL(f.type, f.station)
          /\ Len(StationField(f.station)) = 4
          /\ SubSeq(f.str, Len(PrefixOf(f.type)) + 1, Len(PrefixOf(f.type)) + 4)
               = StationField(f.station)

\* a TAF URL was formed from a three-character station with a lower-case
\* letter in it
C1_Witness ==
  \E k \in DOMAIN formed :
    /\ formed[k].type = "TAF"
    /\ Len(formed[k].station) = 3
    /\ formed[k].station # Upper(formed[k].station)
    /\ formed[k].ret

(* ------------------------------- C2 ------------------------------------ *)
\* C2: a station whose length is neither 3 nor 4 makes formURL fail with
\* the wrong-length warning, a station of length 3 or 4 holding a character
\* that is not alphanumeric makes it fail with the not-alphanumeric warning,
\* and in both cases no curl_easy_perform is called for that station.
C2_InvalidStationRejected ==
  \A k \in DOMAIN formed :
    LET f == formed[k]
        texts == [j \in DOMAIN LinesAt(f.at) |-> LinesAt(f.at)[j].text]
        noRequest == RequestsAt(f.at, FALSE) \cup RequestsAt(f.at, TRUE) = {}
    IN  /\ Len(f.station) \notin {3, 4} =>
             ~f.ret /\ texts = <<WARN_LENGTH>> /\ noRequest
        /\ (Len(f.station) \in {3, 4} /\ ~AllAlnum(f.station)) =>
             ~f.ret /\ texts = <<WARN_ALNUM>> /\ noRequest

\* the run of a four-character station whose first character alone is not
\* alphanumeric is over
C2_Witness ==
  /\ pc = "exited"
  /\ exitStatus = EX_OK
  /\ \E k \in DOMAIN formed :
       /\ Len(formed[k].station) = 4
       /\ ~isalnum(formed[k].station[1])
       /\ \A j \in 2..4 : isalnum(formed[k].station[j])

(* ------------------------------- C9 ------------------------------------ *)
\* C9: for every request kind and both accepted station lengths, formURL
\* stores at no index outside url[], truncates neither the prefix nor the
\* station field nor the extension, leaves the buffer NUL-terminated, and
\* its assertion holds; the buffer length is the length of the longest
\* prefix plus 4 plus the length of the extension plus 1, the METAR prefix
\* being the longest of the three.
C9_BufferNeverOverrun ==
  /\ \A t \in UrlTypes : Len(PrefixOf(t)) <= Len(URL_PREFIX_METAR)
  /\ URL_BUFFER_LEN = Len(URL_PREFIX_METAR) + 4 + Len(URL_EXTENSION) + 1
  /\ DOMAIN url.mem = 0..(URL_BUFFER_LEN - 1)
  /\ pc # "aborted"
  /\ ~url.fault
  /\ \A k \in DOMAIN formed :
       LET f == formed[k]
           n == Len(PrefixOf(f.type))
       IN  /\ ~f.fault
           /\ ~f.aborted
           /\ f.ret =>
                /\ f.terminated
                /\ Len(f.str) = n + 4 + Len(URL_EXTENSION)
                /\ Len(f.str) < URL_BUFFER_LEN
                /\ SubSeq(f.str, 1, n) = PrefixOf(f.type)
                /\ \A j \in (n + 1)..(n + 4) : isalnum(f.str[j])
                /\ SubSeq(f.str, n + 5, n + 4 + Len(URL_EXTENSION)) = URL_EXTENSION

\* a METAR URL, the longest, was formed from a three-character station and
\* fills the buffer up to its last byte, the terminator
C9_Witness ==
  \E k \in DOMAIN formed :
    /\ formed[k].type = "METAR"
    /\ Len(formed[k].station) = 3
    /\ formed[k].ret
    /\ Len(formed[k].str) = URL_BUFFER_LEN - 1
    /\ url.mem[URL_BUFFER_LEN - 1] = NUL

(* ------------------------------- C6 ------------------------------------ *)
\* C6: the branch taken after a primary fetch is NotFound when the result
\* is CURLE_REMOTE_FILE_NOT_FOUND or the response code is 404, whatever the
\* result is otherwise; else TransportError when the result is not
\* CURLE_OK; else Success.  Exactly one of the three is taken, and NotFound
\* goes before TransportError.
C6_ClassificationOfFetch ==
  \A k \in DOMAIN classified :
    LET c == classified[k]
        notFound == c.res = "CURLE_REMOTE_FILE_NOT_FOUND" \/ c.response = 404
        texts == [j \in DOMAIN LinesAt(c.at) |-> LinesAt(c.at)[j].text]
    IN  /\ c.class \in {"NotFound", "TransportError", "Success"}
        /\ c.class = "NotFound" <=> notFound
        /\ c.class = "TransportError" <=> (~notFound /\ c.res # "CURLE_OK")
        /\ c.class = "Success" <=> (~notFound /\ c.res = "CURLE_OK")
        /\ c.at \in Finished =>
             /\ c.class = "NotFound" =>
                  texts = <<"Station ID \"%s\" not found">>
             /\ c.class = "TransportError" =>
                  /\ Len(texts) = 2
                  /\ texts[2] = "Unable to fetch information for station ID \"%s\""
             /\ c.class = "Success" => texts = << >>

\* a fetch that failed with a result other than "remote file not found"
\* and a 404 response took the NotFound branch
C6_Witness ==
  \E k \in DOMAIN classified :
    /\ classified[k].res = "CURLE_HTTP_RETURNED_ERROR"
    /\ classified[k].response = 404
    /\ classified[k].class = "NotFound"
    /\ classified[k].at \in Finished

(* ------------------------------- C3 ------------------------------------ *)

\* getopt met an option character other than d and t
UnknownOption == \E k \in DOMAIN stderr : stderr[k].text = "illegal option"

RECURSIVE SuccessBodies(_)
SuccessBodies(reqs) ==
  IF reqs = << >> THEN << >>
  ELSE (IF ~IsNotFound(Head(reqs).res, Head(reqs).response) /\ Head(reqs).res = "CURLE_OK"
          THEN Head(reqs).body ELSE << >>)
       \o SuccessBodies(Tail(reqs))

\* C4: at the end of a run standard output is exactly the bodies of the
\* successful fetches, each as received, in the order of the station
\* operands; a station that failed validation or whose primary fetch was
\* NotFound or TransportError adds no byte.
C4_StdoutIsTheBodiesReceived ==
  pc = "exited" => stdout = SuccessBodies(requests)

(* ------------------------------- C5 ------------------------------------ *)

\* C5 as claimed: each station that fails validation, is NotFound or is
\* TransportError gets exactly one line on standard error, naming the
\* station; a station whose primary fetch succeeds gets none.
C5_OneLineNamingTheStation ==
  \A i \in Finished :
    IF Invalid(i) \/ ClassAt(i, "NotFound") \/ ClassAt(i, "TransportError")
      THEN Len(LinesAt(i)) = 1 /\ LinesAt(i)[1].names = <<argv[i + 1]>>
      ELSE LinesAt(i) = << >>

\* C5, amended: a station that fails validation gets exactly one line,
\* which states the rule broken and does not name the station; a NotFound
\* station gets exactly one line, naming it; a TransportError station gets
\* exactly two lines, the description of the transport error and then a
\* line naming the station; a station whose primary fetch succeeds gets
\* none.
C5_DiagnosticsPerStation ==
  \A i \in Finished :
    LET L == LinesAt(i)
    IN  /\ Invalid(i) =>
             /\ Len(L) = 1
             /\ L[1].text \in {WARN_LENGTH, WARN_ALNUM}
             /\ L[1].names = << >>
        /\ ClassAt(i, "NotFound") =>
             /\ Len(L) = 1
             /\ L[1].names = <<argv[i + 1]>>
        /\ ClassAt(i, "TransportError") =>
             /\ Len(L) = 2
             /\ L[1].names = << >>
             /\ \E c \in CURLcodes : L[1].text = curl_easy_strerror(c)
             /\ L[2].names = <<argv[i + 1]>>
        /\ ClassAt(i, "Success") => L = << >>
        /\ Invalid(i) \/ \E c \in {"NotFound", "TransportError", "Success"} : ClassAt(i, c)

\* a run is over in which one station failed validation and another met a
\* transport error
C5_Witness ==
  /\ pc = "exited"
  /\ \E i, j \in Finished : Invalid(i) /\ ClassAt(j, "TransportError")

(* ------------------------------- C7 ------------------------------------ *)

\* C7: a second curl_easy_perform is made for a station if and only if -t
\* is set and the station's primary fetch took the Success branch; its URL
\* is the TAF URL of the station whether or not -d is set; and whatever the
\* second fetch returns, no line is written to standard error for it and
\* the exit status stays the success code.
C7_SecondaryFetch ==
  /\ \A i \in Finished :
       /\ RequestsAt(i, TRUE) # {} <=> (tafs /\ ClassAt(i, "Success"))
       /\ RequestsAt(i, TRUE) # {} => LinesAt(i) = << >>
  /\ \A k \in DOMAIN requests :
       requests[k].secondary =>
         /\ requests[k].url = ExpectedURL("TAF", argv[requests[k].at + 1])
         /\ ClassAt(requests[k].at, "Success")
         /\ tafs
         /\ pc = "exited" => exitStatus = EX_OK

\* a run with -d and -t is over in which a second fetch got a 404 and
\* standard error is empty
C7_Witness ==
  /\ pc = "exited"
  /\ decoded
  /\ stderr = << >>
  /\ \E k \in DOMAIN requests :
       /\ requests[k].secondary
       /\ requests[k].done
       /\ requests[k].response = 404

(* ------------------------------- C8 ------------------------------------ *)

\* the loop indices of the primary formURL calls, in their order
PrimaryOrder ==
  LET P == SelectSeq(formed, LAMBDA f : ~f.secondary)
  IN  [k \in DOMAIN P |-> P[k].at]

\* main returned from below the loop, every operand taken once, in order
AllProcessed ==
  /\ pc = "exited"
  /\ exitStatus = EX_OK
  /\ PrimaryOrder = [k \in 1..argc |-> k - 1]
  /\ \A k \in DOMAIN formed : formed[k].station = argv[formed[k].at + 1]

\* C8: once the options are parsed and curl_easy_init has succeeded, every
\* station operand is taken exactly once, in input order, whatever became
\* of the stations before it, and main then returns.
C8_EveryStationProcessed == (curl = "handle") ~> AllProcessed

\* a run of two stations or more is over whose first station failed and
\* whose last was fetched
C8_Witness ==
  /\ AllProcessed
  /\ argc >= 2
  /\ Invalid(0) \/ ClassAt(0, "NotFound") \/ ClassAt(0, "TransportError")
  /\ ClassAt(argc - 1, "Success")

(* ------------------------------- C10 ----------------------------------- *)

\* C10: a station whose primary URL was formed gets exactly one primary
\* curl_easy_perform, never a second one after a timeout, NotFound or
\* TransportError, and at most one secondary one after it; n operands make
\* at most 2n calls, and a call is over before the next is made.
C10_OneFetchNoRetry ==
  /\ \A i \in Finished :
       /\ Cardinality(RequestsAt(i, FALSE)) = IF Invalid(i) THEN 0 ELSE 1
       /\ Cardinality(RequestsAt(i, TRUE)) <= 1
  /\ \A i \in 0..(argc - 1) :
       /\ Cardinality(RequestsAt(i, FALSE)) <= 1
       /\ Cardinality(RequestsAt(i, TRUE)) <= 1
       /\ \A p \in RequestsAt(i, FALSE) : \A q \in RequestsAt(i, TRUE) : p < q
  /\ Len(requests) <= 2 * argc
  /\ \A k \in DOMAIN requests :
       /\ k < Len(requests) => requests[k].done
       /\ k < Len(requests) => requests[k].at <= requests[k + 1].at
       /\ ~requests[k].done => pc \in {"transfer", "taftransfer"}

\* a run of two stations is over: the first timed out and was not fetched
\* again, the second was fetched twice, once for each kind
C10_Witness ==
  /\ pc = "exited"
  /\ argc >= 2
  /\ \E k \in RequestsAt(0, FALSE) : requests[k].res = "CURLE_OPERATION_TIMEDOUT"
  /\ RequestsAt(1, FALSE) # {}
  /\ RequestsAt(1, TRUE) # {}

====
